---- MODULE Spec2Model ----
(***************************************************************************)
(* Model of caltskcts.state_manager.StateManagerBase: the generic entity   *)
(* store with its flat-file backend (JSON file guarded by a FileLock) and  *)
(* its relational backend (one committed transaction per operation).       *)
(* Several OS processes each hold one store instance with a private        *)
(* in-memory cache (_state) over one shared file / one shared table.       *)
(***************************************************************************)
EXTENDS Integers, FiniteSets, Sequences, TLC

\* ------------------------------------------------------------------ bounds
\* Identifiers a caller passes explicitly in the multi-process specification.
MaxId == 2
\* Identifiers a caller passes explicitly in the single-store specification.
MaxStoreId == 5
\* Write I/O failures injected per behaviour.
MaxFaults == 1
\* Operations started per behaviour, by all processes together.
MaxOps == 3
\* Operations the single store starts per behaviour.
MaxStoreOps == 5
\* Operations per behaviour in the single-store specification with updates.
MaxCrudOps == 4
MaxSearchOps == 3
MaxEvents == 3
MaxDur == 3
MaxCalOps == 2

VARIABLES
    useDb,      \* self._use_db: TRUE for a "://" state_uri (same URI in every process)
    file,       \* parsed content of the state file: id -> record (NoRec = no entry)
    fileKind,   \* "absent" | "json" | "garbage" (unparsable, e.g. truncated by a failed write)
    table,      \* committed rows of the ORM table: id -> record (NoRec = no row)
    lock,       \* holder of <state_file>.lock, or NoProc
    state,      \* state[p]: self._state of process p's store instance
    pc,         \* pc[p]: position of p inside the running operation
    op,         \* op[p]: the running / last operation [kind, id, item]
    data,       \* data[p]: the local `data` / `existing` read from the file under the lock
    ret,        \* ret[p]: outcome of the operation that returned
    nid,        \* nid[p]: the integer _get_next_id returned
    faults,     \* write I/O failures so far
    nops,       \* operations started so far, by all processes
    pre,        \* history: pre[p] = state[p] when the running operation was called
    retry,      \* history: retry[p] = the running operation re-invokes one that timed out
    gfile,      \* history: the successful writes applied, one id at a time, in commit order
    assigned,   \* history (single store): ids ever given to a record of the store
    autoLast,   \* history (single store): the last id _get_next_id handed out for an add
    delSince    \* history (single store): delete was called since that id was handed out

vars == <<useDb, file, fileKind, table, lock, state, pc, op, data, ret, nid,
          faults, nops, pre, retry, gfile, assigned, autoLast, delSince>>

\* ------------------------------------------------------------------ values
Procs == {"p1", "p2"}
NoProc == "none"

\* Every identifier a store can hold: explicit ids and the one _get_next_id adds.
AllIds == 1..(IF MaxId > MaxStoreId THEN MaxId ELSE MaxStoreId)
Ids == 1..MaxId
StoreIds == 1..MaxStoreId

\* A record kind with a required field and an optional one (Contacts:
\* first_name is required and non-empty, title is free). "" is the empty string.
Fields == {"first_name", "title"}
Vals == {"", "x"}
NoVal == "<none>"

\* A full record as add builds it, and the partial `updates` of update
\* (NoVal: the field is not supplied).
Items == [Fields -> Vals]
Updates == [Fields -> Vals \cup {NoVal}]
\* No record under an id (dict has no such key).
NoRec == [f \in Fields |-> NoVal]

Empty == [i \in AllIds |-> NoRec]
Has(s, i) == i \in DOMAIN s /\ s[i] # NoRec
Keys(s) == {i \in DOMAIN s : s[i] # NoRec}

\* ------------------------------------------------------- pure functions

\* Contacts._validate_item: validate_required_fields(item, [...]) raises
\* ValueError for a missing or falsy required field.
_validate_item(item) == item["first_name"] # NoVal /\ item["first_name"] # ""

\* max(int(k) for k in self._state), folded over the keys as Python's max does.
RECURSIVE MaxOf(_)
MaxOf(S) ==
    IF S = {} THEN 0
    ELSE LET k == CHOOSE x \in S : TRUE
             m == MaxOf(S \ {k})
         IN  IF k > m THEN k ELSE m

\* _get_next_id: 1 for an empty state, else max key + 1.
NextIdCount(st) == Cardinality(Keys(st)) + 1
NextIdMax(st) == IF Keys(st) = {} THEN 1 ELSE MaxOf(Keys(st))
_get_next_id(st) == IF Keys(st) = {} THEN 1 ELSE MaxOf(Keys(st)) + 1

\* {**self._state[item_id], **updates}: the supplied fields overlay the record.
MergeReplace(rec, updates) == [f \in Fields |-> IF updates[f] # NoVal THEN updates[f] ELSE ""]
Merge(rec, updates) == [f \in Fields |-> IF updates[f] # NoVal THEN updates[f] ELSE rec[f]]

\* json.load of the state file, with the fallbacks of every reader:
\* FileNotFoundError / JSONDecodeError give {}.
ReadJson(kind, content) == IF kind = "json" THEN content ELSE Empty

\* _save_one_file's change to the re-read data: data[str(item_id)] = item_data.
\* (st is the caller's self._state, which the code does not write out.)
SaveOneFromCache(d, st, item_id, item_data) == [st EXCEPT ![item_id] = item_data]
SaveOneSkip(d, st, item_id, item_data) == d
SaveOneAlone(d, st, item_id, item_data) == [Empty EXCEPT ![item_id] = item_data]
SaveOneKeepExisting(d, st, item_id, item_data) ==
    IF Has(d, item_id) THEN d ELSE [d EXCEPT ![item_id] = item_data]
SaveOneData(d, st, item_id, item_data) == [d EXCEPT ![item_id] = item_data]

\* _delete_one_file's change: data.pop(str(item_id), None).
DeleteOneFromCache(d, st, item_id) == [st EXCEPT ![item_id] = NoRec]
DeleteOneKeep(d, st, item_id) == d
DeleteOneData(d, st, item_id) == [d EXCEPT ![item_id] = NoRec]

\* _save_state_file's merge: existing.update(snapshot), the snapshot wins.
SaveAllSnapshotOnly(existing, snapshot) == snapshot
SaveAllData(existing, snapshot) ==
    [i \in AllIds |-> IF snapshot[i] # NoRec THEN snapshot[i] ELSE existing[i]]

\* get_item: None (NoRec) for an id the state does not hold; the dict itself in
\* file mode; in DB mode one entry per column of the row, the id column included.
get_item(db, st, item_id) ==
    IF ~Has(st, item_id) THEN NoRec
    ELSE IF db
         THEN [c \in Fields \cup {"id"} |-> IF c = "id" THEN item_id ELSE st[item_id][c]]
         ELSE st[item_id]

\* list_items: every held id with its record, flattened as get_item does.
list_items(db, st) == [i \in Keys(st) |-> get_item(db, st, i)]

\* ------------------------------------------------------------- search
\* Field values, fields and queries of the searching specification. A value is
\* kept as one string and read as text (its characters) where the code looks
\* inside it; "company" is a field the records do not have.
SearchVals == {"", "x", "X", "Xy"}
SearchItems == {it \in [Fields -> SearchVals \cup {NoVal}] : it["first_name"] # NoVal}
SearchFields == {"first_name", "title", "company"}
Queries == {"", "x", "y", "Xy", "["}

\* str(value): the characters of a value.
Text(v) ==
    CASE v = "" -> << >>
      [] v = "x" -> <<"x">>
      [] v = "X" -> <<"X">>
      [] v = "y" -> <<"y">>
      [] v = "Xy" -> <<"X", "y">>
      [] v = "[" -> <<"[">>

\* re.IGNORECASE: characters are compared after case folding.
Lower(c) == IF c = "X" THEN "x" ELSE c

\* re.compile(query, re.IGNORECASE): re.error for an unterminated character
\* set, else the pattern (here: a literal text).
re_compile(query) ==
    [ok |-> \A k \in 1..Len(Text(query)) : Text(query)[k] # "[",
     pattern |-> Text(query)]

\* query_regex.search(text): the pattern occurs somewhere in the text; the
\* empty pattern occurs in every text, the empty one included.
RegexSearch(pattern, text) ==
    \E k \in 0..(Len(text) - Len(pattern)) :
        \A j \in 1..Len(pattern) : Lower(text[k + j]) = Lower(pattern[j])

\* Python truth of a field value: None and "" are falsy.
Truthy(v) == v # NoVal /\ v # ""

\* The row search hands out for a record: {"item_id": item_id, **item} in file
\* mode; every column of the row (the id column included) plus item_id in DB mode.
Row(db, item_id, item) ==
    [c \in Fields \cup (IF db THEN {"item_id", "id"} ELSE {"item_id"}) |->
        IF c \in {"item_id", "id"} THEN item_id ELSE item[c]]

\* The inner loop over the fields: the row is appended at the first field
\* that is present, truthy and matches, and the loop breaks.
MatchRow(row, pattern, fields) ==
    IF \E f \in fields :
          f \in DOMAIN row /\ Truthy(row[f]) /\ RegexSearch(pattern, Text(row[f]))
    THEN <<row>> ELSE << >>

\* The outer loop over self._state.items(), here in ascending id order.
RECURSIVE SearchRows(_, _, _, _, _)
SearchRows(db, st, from, pattern, fields) ==
    IF from \notin AllIds THEN << >>
    ELSE (IF Has(st, from) THEN MatchRow(Row(db, from, st[from]), pattern, fields)
          ELSE << >>) \o SearchRows(db, st, from + 1, pattern, fields)

\* What search_items gives its caller: the rows, or the error raised.
Found(rows) == [error |-> "none", rows |-> rows]
Raised(e) == [error |-> e, rows |-> << >>]

\* ----------------------------------------------------------- calendar
\* Calendar.find_next_available. A date string "MM/DD/YYYY HH:MM" is kept as
\* <<day, hour, minute>> (day: the day's number); the times used lie around
\* midnight, where minute, hour and day all carry.
CalTimes == {<<0, 23, 58>>, <<0, 23, 59>>, <<1, 0, 0>>, <<1, 0, 1>>}
Durations == 1..MaxDur
CalIds == 1..MaxEvents
NoEvent == [date |-> << >>, duration |-> 0]
CalEvents == [date : CalTimes, duration : Durations]

\* datetime.strptime(s, "%m/%d/%Y %H:%M") and datetime.strftime, with the
\* datetime counted in minutes.
strptime(s) == (s[1] * 24 + s[2]) * 60 + s[3]
strftime(t) == <<t \div 1440, (t \div 60) % 24, t % 60>>

\* booked_slots: (event_start, event_end) of every stored event.
BookedSlots(events) ==
    {<<strptime(events[i].date), strptime(events[i].date) + events[i].duration>> :
        i \in {j \in DOMAIN events : events[j] # NoEvent}}

\* The slots the inner loop finds in conflict with [start, proposed_end).
Conflicts(slots, start, duration_minutes) ==
    {sl \in slots : start < sl[2] /\ start + duration_minutes > sl[1]}

\* booked_slots.sort() and the break at the first conflict: the conflicting
\* slot that is least in the order of the tuples.
FirstConflict(cs) ==
    CHOOSE c \in cs : \A e \in cs : c[1] < e[1] \/ (c[1] = e[1] /\ c[2] <= e[2])

\* ------------------------------------------------------------------ state

NoOp == [kind |-> "none", id |-> 0, item |-> NoRec]
MkOp(k, i, it) == [kind |-> k, id |-> i, item |-> it]

Init ==
    /\ useDb \in BOOLEAN
    /\ file = Empty
    /\ fileKind = "absent"
    /\ table = Empty
    /\ lock = NoProc
    /\ state = [p \in Procs |-> Empty]
    /\ pc = [p \in Procs |-> "idle"]
    /\ op = [p \in Procs |-> NoOp]
    /\ data = [p \in Procs |-> Empty]
    /\ ret = [p \in Procs |-> "none"]
    /\ nid = [p \in Procs |-> 0]
    /\ faults = 0
    /\ nops = 0
    /\ pre = [p \in Procs |-> Empty]
    /\ retry = [p \in Procs |-> FALSE]
    /\ gfile = Empty
    /\ assigned = {}
    /\ autoLast = 0
    /\ delSince = FALSE

\* The caller invokes an operation: from rest, or again after a lock timeout.
Begin(p, o, again, run) ==
    /\ IF again THEN pc[p] = "done" /\ ret[p] = "Timeout" /\ op[p] = o
                ELSE pc[p] = "idle"
    /\ nops < run.budget
    /\ nops' = nops + 1
    /\ op' = [op EXCEPT ![p] = o]
    /\ pre' = [pre EXCEPT ![p] = state[p]]
    /\ retry' = [retry EXCEPT ![p] = again]
    /\ data' = [data EXCEPT ![p] = Empty]

\* The operation returns r (a value, or the exception that propagates).
Return(p, r) ==
    /\ pc' = [pc EXCEPT ![p] = "done"]
    /\ ret' = [ret EXCEPT ![p] = r]

\* The operation goes on to take the file lock.
ToLock(p) ==
    /\ pc' = [pc EXCEPT ![p] = "acquire"]
    /\ ret' = [ret EXCEPT ![p] = "none"]

backendVars == <<file, fileKind, table>>
storeHist == <<assigned, autoLast, delSince>>

\* How a specification runs the store: its budget of operations and whether
\* it records the single store's history.
MultiRun == [budget |-> MaxOps, track |-> FALSE]
StoreRun == [budget |-> MaxStoreOps, track |-> TRUE]
CrudRun == [budget |-> MaxCrudOps, track |-> FALSE]
SearchRun == [budget |-> MaxSearchOps, track |-> FALSE]
CalRun == [budget |-> MaxCalOps, track |-> FALSE]

\* ------------------------------------------------------ store operations

\* StateManagerBase.__init__: a (fresh) store instance loads its state.
\* DB mode: _load_state_db returns the rows, or {} when the query raises.
ConstructNoLoad(p, run) ==
    /\ Begin(p, MkOp("load", 0, NoRec), FALSE, run)
    /\ state' = [state EXCEPT ![p] = Empty]
    /\ Return(p, "None")
    /\ UNCHANGED <<useDb, nid, backendVars, lock, faults, gfile, storeHist>>
Construct(p, run) ==
    /\ Begin(p, MkOp("load", 0, NoRec), FALSE, run)
    /\ IF useDb
       THEN /\ \/ /\ state' = [state EXCEPT ![p] = table]
                  /\ UNCHANGED faults
               \/ /\ faults < MaxFaults
                  /\ faults' = faults + 1
                  /\ state' = [state EXCEPT ![p] = Empty]
            /\ Return(p, "None")
       ELSE /\ ToLock(p)
            /\ UNCHANGED <<state, faults>>
    /\ UNCHANGED <<useDb, nid, backendVars, lock, gfile, storeHist>>

\* _save_state: no-op for the DB backend, else _save_state_file.
_save_state(p, run) ==
    /\ Begin(p, MkOp("saveAll", 0, NoRec), FALSE, run)
    /\ IF useDb THEN Return(p, "None") ELSE ToLock(p)
    /\ UNCHANGED <<useDb, nid, backendVars, lock, state, faults, gfile, storeHist>>

\* _get_next_id called by itself.
get_next_id(p, run) ==
    /\ Begin(p, MkOp("nextId", 0, NoRec), FALSE, run)
    /\ nid' = [nid EXCEPT ![p] = _get_next_id(state[p])]
    /\ Return(p, "None")
    /\ UNCHANGED <<useDb, backendVars, lock, state, faults, gfile, storeHist>>

\* add_item. The duplicate check and the validation hook come first; the DB
\* branch commits one insert and caches the instance only when it succeeded;
\* the file branch caches the record and then calls _save_one_file.
AddItemNoDupCheck(p, item_id, item_data, again, run) ==
    /\ Begin(p, MkOp("add", item_id, item_data), again, run)
    /\ state' = [state EXCEPT ![p][item_id] = item_data]
    /\ IF useDb
       THEN /\ table' = [table EXCEPT ![item_id] = item_data]
            /\ Return(p, "True")
            /\ UNCHANGED <<file, fileKind>>
       ELSE /\ ToLock(p)
            /\ UNCHANGED backendVars
    /\ UNCHANGED <<useDb, nid, lock, faults, gfile, assigned>>
AddItemCacheFirst(p, item_id, item_data, again, run) ==
    /\ Begin(p, MkOp("add", item_id, item_data), again, run)
    /\ IF Has(state[p], item_id)
       THEN /\ Return(p, "False")
            /\ UNCHANGED <<backendVars, state>>
       ELSE /\ state' = [state EXCEPT ![p][item_id] = item_data]
            /\ IF ~_validate_item(item_data)
               THEN Return(p, "ValueError") /\ UNCHANGED backendVars
               ELSE IF useDb
               THEN /\ table' = [table EXCEPT ![item_id] = item_data]
                    /\ Return(p, "True")
                    /\ UNCHANGED <<file, fileKind>>
               ELSE ToLock(p) /\ UNCHANGED backendVars
    /\ UNCHANGED <<useDb, nid, lock, faults, gfile, assigned>>
add_item(p, item_id, item_data, again, run) ==
    /\ Begin(p, MkOp("add", item_id, item_data), again, run)
    /\ IF Has(state[p], item_id)
       THEN /\ Return(p, "False")
            /\ UNCHANGED <<backendVars, state, faults, assigned>>
       ELSE IF ~_validate_item(item_data)
       THEN /\ Return(p, "ValueError")
            /\ UNCHANGED <<backendVars, state, faults, assigned>>
       ELSE IF useDb
       THEN \/ /\ ~Has(table, item_id)
               /\ table' = [table EXCEPT ![item_id] = item_data]
               /\ state' = [state EXCEPT ![p][item_id] = item_data]
               /\ assigned' = IF run.track THEN assigned \cup {item_id} ELSE assigned
               /\ Return(p, "True")
               /\ UNCHANGED <<file, fileKind, faults>>
            \/ /\ Has(table, item_id) \/ faults < MaxFaults
               /\ faults' = IF Has(table, item_id) THEN faults ELSE faults + 1
               /\ Return(p, "False")
               /\ UNCHANGED <<backendVars, state, assigned>>
       ELSE /\ state' = [state EXCEPT ![p][item_id] = item_data]
            /\ assigned' = IF run.track THEN assigned \cup {item_id} ELSE assigned
            /\ ToLock(p)
            /\ UNCHANGED <<backendVars, faults>>
    /\ UNCHANGED <<useDb, nid, lock, gfile>>

\* An add with a caller-chosen id (contact_id given).
AddWithId(p, item_id, item_data, run) ==
    /\ add_item(p, item_id, item_data, FALSE, run)
    /\ UNCHANGED <<autoLast, delSince>>

\* Contacts.add_contact without contact_id: the id comes from _get_next_id.
add_contact(p, item_data, ids, run) ==
    LET contact_id == _get_next_id(state[p])
    IN  /\ contact_id \in ids
        /\ add_item(p, contact_id, item_data, FALSE, run)
        /\ autoLast' = IF run.track /\ _validate_item(item_data) THEN contact_id ELSE autoLast
        /\ delSince' = IF run.track /\ _validate_item(item_data) THEN FALSE ELSE delSince

\* update_item. DB branch: the row is fetched again, the updates applied, the
\* merged row validated inside the try (a ValueError is caught and becomes
\* False) and committed. File branch: the merged record is validated, the
\* cached record updated in place, then _save_one_file writes it.
UpdateItemUpsert(p, item_id, updates, again, run) ==
    /\ Begin(p, MkOp("update", item_id, updates), again, run)
    /\ state' = [state EXCEPT ![p][item_id] = Merge(state[p][item_id], updates)]
    /\ IF useDb
       THEN /\ table' = [table EXCEPT ![item_id] = Merge(table[item_id], updates)]
            /\ Return(p, "True")
            /\ UNCHANGED <<file, fileKind>>
       ELSE /\ ToLock(p)
            /\ UNCHANGED backendVars
    /\ UNCHANGED <<useDb, nid, lock, faults, gfile, storeHist>>
UpdateItemValidateSupplied(p, item_id, updates, again, run) ==
    /\ Begin(p, MkOp("update", item_id, updates), again, run)
    /\ IF ~Has(state[p], item_id) \/ (useDb /\ ~Has(table, item_id))
       THEN /\ Return(p, "False")
            /\ UNCHANGED <<backendVars, state>>
       ELSE IF ~_validate_item(updates)
       THEN /\ Return(p, IF useDb THEN "False" ELSE "ValueError")
            /\ UNCHANGED <<backendVars, state>>
       ELSE IF useDb
       THEN /\ table' = [table EXCEPT ![item_id] = Merge(table[item_id], updates)]
            /\ state' = [state EXCEPT ![p][item_id] = Merge(table[item_id], updates)]
            /\ Return(p, "True")
            /\ UNCHANGED <<file, fileKind>>
       ELSE /\ state' = [state EXCEPT ![p][item_id] = Merge(state[p][item_id], updates)]
            /\ ToLock(p)
            /\ UNCHANGED backendVars
    /\ UNCHANGED <<useDb, nid, lock, faults, gfile, storeHist>>
UpdateItemNoValidate(p, item_id, updates, again, run) ==
    /\ Begin(p, MkOp("update", item_id, updates), again, run)
    /\ IF ~Has(state[p], item_id) \/ (useDb /\ ~Has(table, item_id))
       THEN /\ Return(p, "False")
            /\ UNCHANGED <<backendVars, state>>
       ELSE IF useDb
       THEN /\ table' = [table EXCEPT ![item_id] = Merge(table[item_id], updates)]
            /\ state' = [state EXCEPT ![p][item_id] = Merge(table[item_id], updates)]
            /\ Return(p, "True")
            /\ UNCHANGED <<file, fileKind>>
       ELSE /\ state' = [state EXCEPT ![p][item_id] = Merge(state[p][item_id], updates)]
            /\ ToLock(p)
            /\ UNCHANGED backendVars
    /\ UNCHANGED <<useDb, nid, lock, faults, gfile, storeHist>>
UpdateItemWriteCache(p, item_id, updates, again, run) ==
    /\ Begin(p, MkOp("update", item_id, updates), again, run)
    /\ IF ~Has(state[p], item_id) \/ (useDb /\ ~Has(table, item_id))
       THEN /\ Return(p, "False")
            /\ UNCHANGED <<backendVars, state>>
       ELSE IF useDb
       THEN LET current_map == Merge(table[item_id], updates)
            IN  IF ~_validate_item(current_map)
                THEN /\ Return(p, "False")
                     /\ UNCHANGED <<backendVars, state>>
                ELSE /\ table' = [state[p] EXCEPT ![item_id] = current_map]
                     /\ state' = [state EXCEPT ![p][item_id] = current_map]
                     /\ Return(p, "True")
                     /\ UNCHANGED <<file, fileKind>>
       ELSE LET new_data == Merge(state[p][item_id], updates)
            IN  IF ~_validate_item(new_data)
                THEN /\ Return(p, "ValueError")
                     /\ UNCHANGED <<backendVars, state>>
                ELSE /\ state' = [state EXCEPT ![p][item_id] = new_data]
                     /\ ToLock(p)
                     /\ UNCHANGED backendVars
    /\ UNCHANGED <<useDb, nid, lock, faults, gfile, storeHist>>
update_item(p, item_id, updates, again, run) ==
    /\ Begin(p, MkOp("update", item_id, updates), again, run)
    /\ IF ~Has(state[p], item_id)
       THEN /\ Return(p, "False")
            /\ UNCHANGED <<backendVars, state, faults>>
       ELSE IF useDb
       THEN IF ~Has(table, item_id)
            THEN /\ Return(p, "False")
                 /\ UNCHANGED <<backendVars, state, faults>>
            ELSE LET current_map == Merge(table[item_id], updates)
                 IN  IF ~_validate_item(current_map)
                     THEN /\ Return(p, "False")
                          /\ UNCHANGED <<backendVars, state, faults>>
                     ELSE \/ /\ table' = [table EXCEPT ![item_id] = current_map]
                             /\ state' = [state EXCEPT ![p][item_id] = current_map]
                             /\ Return(p, "True")
                             /\ UNCHANGED <<file, fileKind, faults>>
                          \/ /\ faults < MaxFaults
                             /\ faults' = faults + 1
                             /\ Return(p, "False")
                             /\ UNCHANGED <<backendVars, state>>
       ELSE LET new_data == Merge(state[p][item_id], updates)
            IN  IF ~_validate_item(new_data)
                THEN /\ Return(p, "ValueError")
                     /\ UNCHANGED <<backendVars, state, faults>>
                ELSE /\ state' = [state EXCEPT ![p][item_id] = new_data]
                     /\ ToLock(p)
                     /\ UNCHANGED <<backendVars, faults>>
    /\ UNCHANGED <<useDb, nid, lock, gfile, storeHist>>

\* delete_item. DB branch: fetch, delete, commit, then drop the cached entry.
\* File branch: drop the cached entry, then _delete_one_file.
DeleteItemCacheFirst(p, item_id, again, run) ==
    /\ Begin(p, MkOp("delete", item_id, NoRec), again, run)
    /\ IF ~Has(state[p], item_id)
       THEN /\ Return(p, "False")
            /\ UNCHANGED <<backendVars, state, faults, delSince>>
       ELSE /\ state' = [state EXCEPT ![p][item_id] = NoRec]
            /\ delSince' = IF run.track THEN TRUE ELSE delSince
            /\ IF useDb
               THEN \/ /\ table' = [table EXCEPT ![item_id] = NoRec]
                       /\ Return(p, "True")
                       /\ UNCHANGED <<file, fileKind, faults>>
                    \/ /\ faults < MaxFaults
                       /\ faults' = faults + 1
                       /\ Return(p, "False")
                       /\ UNCHANGED backendVars
               ELSE /\ ToLock(p)
                    /\ UNCHANGED <<backendVars, faults>>
    /\ UNCHANGED <<useDb, nid, lock, gfile, assigned, autoLast>>
delete_item(p, item_id, again, run) ==
    /\ Begin(p, MkOp("delete", item_id, NoRec), again, run)
    /\ IF ~Has(state[p], item_id)
       THEN /\ Return(p, "False")
            /\ UNCHANGED <<backendVars, state, faults, delSince>>
       ELSE IF useDb
       THEN IF ~Has(table, item_id)
            THEN /\ Return(p, "False")
                 /\ UNCHANGED <<backendVars, state, faults, delSince>>
            ELSE \/ /\ table' = [table EXCEPT ![item_id] = NoRec]
                    /\ state' = [state EXCEPT ![p][item_id] = NoRec]
                    /\ delSince' = IF run.track THEN TRUE ELSE delSince
                    /\ Return(p, "True")
                    /\ UNCHANGED <<file, fileKind, faults>>
                 \/ /\ faults < MaxFaults
                    /\ faults' = faults + 1
                    /\ Return(p, "False")
                    /\ UNCHANGED <<backendVars, state, delSince>>
       ELSE /\ state' = [state EXCEPT ![p][item_id] = NoRec]
            /\ delSince' = IF run.track THEN TRUE ELSE delSince
            /\ ToLock(p)
            /\ UNCHANGED <<backendVars, faults>>
    /\ UNCHANGED <<useDb, nid, lock, gfile, assigned, autoLast>>

\* search_items: compile the query (re.error becomes ValueError), then collect
\* the matching rows from self._state; nothing is written.
SearchItemsIgnoreBadPattern(p, query, fields, run) ==
    /\ Begin(p, MkOp("search", 0, [query |-> query, fields |-> fields]), FALSE, run)
    /\ Return(p, Found(IF re_compile(query).ok
                       THEN SearchRows(useDb, state[p], 1, re_compile(query).pattern, fields)
                       ELSE << >>))
    /\ UNCHANGED <<useDb, nid, backendVars, lock, state, faults, gfile, storeHist>>
search_items(p, query, fields, run) ==
    /\ Begin(p, MkOp("search", 0, [query |-> query, fields |-> fields]), FALSE, run)
    /\ LET query_regex == re_compile(query)
       IN  Return(p, IF ~query_regex.ok
                     THEN Raised("ValueError")
                     ELSE Found(SearchRows(useDb, state[p], 1, query_regex.pattern, fields)))
    /\ UNCHANGED <<useDb, nid, backendVars, lock, state, faults, gfile, storeHist>>

\* get_item and list_items as calls of a process: the answer is computed from
\* self._state and returned.
GetItem(p, item_id, run) ==
    /\ Begin(p, MkOp("get", item_id, NoRec), FALSE, run)
    /\ Return(p, get_item(useDb, state[p], item_id))
    /\ UNCHANGED <<useDb, nid, backendVars, lock, state, faults, gfile, storeHist>>
ListItemsReload(p, run) ==
    /\ Begin(p, MkOp("list", 0, NoRec), FALSE, run)
    /\ state' = [state EXCEPT ![p] = IF useDb THEN table ELSE ReadJson(fileKind, file)]
    /\ Return(p, list_items(useDb, state'[p]))
    /\ UNCHANGED <<useDb, nid, backendVars, lock, faults, gfile, storeHist>>
ListItems(p, run) ==
    /\ Begin(p, MkOp("list", 0, NoRec), FALSE, run)
    /\ Return(p, list_items(useDb, state[p]))
    /\ UNCHANGED <<useDb, nid, backendVars, lock, state, faults, gfile, storeHist>>

\* find_next_available: parse the start, then run the `while True` loop, one
\* pass per step; nid[p] holds the local `start`.
find_next_available(p, start_datetime, duration_minutes, run) ==
    /\ Begin(p, MkOp("findNext", 0, [start |-> start_datetime, duration |-> duration_minutes]),
             FALSE, run)
    /\ nid' = [nid EXCEPT ![p] = strptime(start_datetime)]
    /\ pc' = [pc EXCEPT ![p] = "scan"]
    /\ UNCHANGED <<useDb, backendVars, lock, state, ret, faults, gfile, storeHist>>

\* A pass that finds a conflict: start moves to the end of that event.
ScanConflictPast(p) ==
    LET cs == Conflicts(BookedSlots(state[p]), nid[p], op[p].item.duration)
    IN  /\ pc[p] = "scan"
        /\ cs # {}
        /\ nid' = [nid EXCEPT ![p] = FirstConflict(cs)[2] + 1]
        /\ UNCHANGED <<useDb, backendVars, lock, state, pc, op, data, ret, faults, nops,
                       pre, retry, gfile, storeHist>>
ScanConflict(p) ==
    LET cs == Conflicts(BookedSlots(state[p]), nid[p], op[p].item.duration)
    IN  /\ pc[p] = "scan"
        /\ cs # {}
        /\ nid' = [nid EXCEPT ![p] = FirstConflict(cs)[2]]
        /\ UNCHANGED <<useDb, backendVars, lock, state, pc, op, data, ret, faults, nops,
                       pre, retry, gfile, storeHist>>

\* A pass without conflict: the start is formatted and returned (the returned
\* text is kept as the printed form of the formatted date).
ScanFree(p) ==
    /\ pc[p] = "scan"
    /\ Conflicts(BookedSlots(state[p]), nid[p], op[p].item.duration) = {}
    /\ Return(p, ToString(strftime(nid[p])))
    /\ UNCHANGED <<useDb, backendVars, lock, state, op, data, nid, faults, nops,
                   pre, retry, gfile, storeHist>>

\* The caller's retry policy: the operation that failed with the lock timeout
\* is invoked again with the same arguments.
RetryAfterTimeout(p, run) ==
    /\ pc[p] = "done" /\ ret[p] = "Timeout"
    /\ \/ /\ op[p].kind = "add"
          /\ add_item(p, op[p].id, op[p].item, TRUE, run)
          /\ UNCHANGED <<autoLast, delSince>>
       \/ /\ op[p].kind = "update"
          /\ update_item(p, op[p].id, op[p].item, TRUE, run)
       \/ /\ op[p].kind = "delete"
          /\ delete_item(p, op[p].id, TRUE, run)

\* The caller goes on after the operation returned.
Continue(p) ==
    /\ pc[p] = "done"
    /\ pc' = [pc EXCEPT ![p] = "idle"]
    /\ op' = [op EXCEPT ![p] = NoOp]
    /\ ret' = [ret EXCEPT ![p] = "none"]
    /\ nid' = [nid EXCEPT ![p] = 0]
    /\ pre' = [pre EXCEPT ![p] = Empty]
    /\ retry' = [retry EXCEPT ![p] = FALSE]
    /\ data' = [data EXCEPT ![p] = Empty]
    /\ UNCHANGED <<useDb, backendVars, lock, state, faults, nops, gfile, storeHist>>

\* ------------------------------------------------- flat-file backend steps

storeVars == <<useDb, table, nops, op, pre, retry, nid, storeHist>>

\* `with lock:` entered: FileLock(state_file + ".lock", timeout=2) obtained.
AcquireNoWait(p) ==
    /\ pc[p] = "acquire"
    /\ lock' = p
    /\ pc' = [pc EXCEPT ![p] = "read"]
    /\ UNCHANGED <<storeVars, file, fileKind, state, data, ret, faults, gfile>>
Acquire(p) ==
    /\ pc[p] = "acquire"
    /\ lock = NoProc
    /\ lock' = p
    /\ pc' = [pc EXCEPT ![p] = "read"]
    /\ UNCHANGED <<storeVars, file, fileKind, state, data, ret, faults, gfile>>

\* The lock stayed held by another process for the whole timeout: filelock
\* raises Timeout. The writers log and re-raise it; _load_state_file logs it
\* and returns the empty state.
LockTimeoutSwallow(p) ==
    /\ pc[p] = "acquire"
    /\ lock \notin {NoProc, p}
    /\ Return(p, "None")
    /\ UNCHANGED <<storeVars, file, fileKind, lock, state, data, faults, gfile>>
LockTimeout(p) ==
    /\ pc[p] = "acquire"
    /\ lock \notin {NoProc, p}
    /\ IF op[p].kind = "load"
       THEN /\ state' = [state EXCEPT ![p] = Empty]
            /\ Return(p, "None")
       ELSE /\ Return(p, "Timeout")
            /\ UNCHANGED state
    /\ UNCHANGED <<storeVars, file, fileKind, lock, data, faults, gfile>>

\* Under the lock: open(state_file, "r"); json.load, with {} for a missing or
\* unparsable file. Keys come back through int(k).
ReadFile(p) ==
    /\ pc[p] = "read"
    /\ lock = p
    /\ data' = [data EXCEPT ![p] = ReadJson(fileKind, file)]
    /\ pc' = [pc EXCEPT ![p] = "write"]
    /\ UNCHANGED <<storeVars, file, fileKind, lock, state, ret, faults, gfile>>

\* The file is rewritten with `new` and the cache reloaded from it.
CommitNoReflect(p, new) ==
    /\ file' = new
    /\ fileKind' = "json"
    /\ pc' = [pc EXCEPT ![p] = "unlock"]
    /\ UNCHANGED <<storeVars, lock, state, data, ret, faults>>
Commit(p, new) ==
    /\ file' = new
    /\ fileKind' = "json"
    /\ state' = [state EXCEPT ![p] = new]
    /\ pc' = [pc EXCEPT ![p] = "unlock"]
    /\ UNCHANGED <<storeVars, lock, data, ret, faults>>

\* _load_state_file, after the read: the parsed dict becomes the state.
LoadStateFileStale(p) ==
    /\ pc[p] = "write"
    /\ op[p].kind = "load"
    /\ pc' = [pc EXCEPT ![p] = "unlock"]
    /\ UNCHANGED <<storeVars, file, fileKind, lock, state, data, ret, faults, gfile>>
_load_state_file(p) ==
    /\ pc[p] = "write"
    /\ op[p].kind = "load"
    /\ state' = [state EXCEPT ![p] = data[p]]
    /\ pc' = [pc EXCEPT ![p] = "unlock"]
    /\ UNCHANGED <<storeVars, file, fileKind, lock, data, ret, faults, gfile>>

\* _save_one_file, after the read: set one key, dump, reflect into memory.
\* add_item passes item_data; update_item passes self._state[item_id].
_save_one_file(p) ==
    /\ pc[p] = "write"
    /\ op[p].kind \in {"add", "update"}
    /\ LET item_id == op[p].id
           item_data == IF op[p].kind = "add" THEN op[p].item ELSE state[p][item_id]
       IN  /\ Commit(p, SaveOneData(data[p], state[p], item_id, item_data))
           /\ gfile' = [gfile EXCEPT ![item_id] =
                           IF op[p].kind = "add" THEN op[p].item
                           ELSE Merge(pre[p][item_id], op[p].item)]

\* _delete_one_file, after the read: pop one key, dump, reflect into memory.
_delete_one_file(p) ==
    /\ pc[p] = "write"
    /\ op[p].kind = "delete"
    /\ Commit(p, DeleteOneData(data[p], state[p], op[p].id))
    /\ gfile' = [gfile EXCEPT ![op[p].id] = NoRec]

\* _save_state_file, after the read: merge the snapshot of self._state into
\* the file's content, dump, reflect into memory.
_save_state_file(p) ==
    /\ pc[p] = "write"
    /\ op[p].kind = "saveAll"
    /\ Commit(p, SaveAllData(data[p], state[p]))
    /\ gfile' = [i \in AllIds |-> IF pre[p][i] # NoRec THEN pre[p][i] ELSE gfile[i]]

\* The write fails: open(state_file, "w") raises and the file is as it was,
\* or json.dump raises after open() truncated the file. The exception leaves
\* the with block (the lock is released) and is logged and re-raised.
WriteFailKeepLock(p) ==
    /\ pc[p] = "write"
    /\ op[p].kind # "load"
    /\ faults < MaxFaults
    /\ faults' = faults + 1
    /\ \/ UNCHANGED <<file, fileKind>>
       \/ file' = Empty /\ fileKind' = "garbage"
    /\ Return(p, "IOError")
    /\ UNCHANGED <<storeVars, lock, state, data, gfile>>
WriteFail(p) ==
    /\ pc[p] = "write"
    /\ op[p].kind # "load"
    /\ faults < MaxFaults
    /\ faults' = faults + 1
    /\ \/ UNCHANGED <<file, fileKind>>
       \/ file' = Empty /\ fileKind' = "garbage"
    /\ lock' = NoProc
    /\ Return(p, "IOError")
    /\ UNCHANGED <<storeVars, state, data, gfile>>

\* The with block ends: the lock is released and the operation returns.
ReleaseKeepLock(p) ==
    /\ pc[p] = "unlock"
    /\ lock = p
    /\ Return(p, IF op[p].kind \in {"add", "update", "delete"} THEN "True" ELSE "None")
    /\ UNCHANGED <<storeVars, file, fileKind, lock, state, data, faults, gfile>>
Release(p) ==
    /\ pc[p] = "unlock"
    /\ lock = p
    /\ lock' = NoProc
    /\ Return(p, IF op[p].kind \in {"add", "update", "delete"} THEN "True" ELSE "None")
    /\ UNCHANGED <<storeVars, file, fileKind, state, data, faults, gfile>>

\* ------------------------------------------------------- specifications

\* The steps of the flat-file backend, whoever runs them.
FileStep(p) ==
    \/ Acquire(p)
    \/ LockTimeout(p)
    \/ ReadFile(p)
    \/ _load_state_file(p)
    \/ _save_one_file(p)
    \/ _delete_one_file(p)
    \/ _save_state_file(p)
    \/ WriteFail(p)
    \/ Release(p)

\* Several processes over one backend; every process may also construct a
\* fresh store instance at any time.
Next ==
    \E p \in Procs :
        \/ Construct(p, MultiRun)
        \/ _save_state(p, MultiRun)
        \/ get_next_id(p, MultiRun)
        \/ \E i \in Ids, it \in Items : AddWithId(p, i, it, MultiRun)
        \/ \E it \in Items : add_contact(p, it, Ids, MultiRun)
        \/ \E i \in Ids, u \in Updates : update_item(p, i, u, FALSE, MultiRun)
        \/ \E i \in Ids : delete_item(p, i, FALSE, MultiRun)
        \/ RetryAfterTimeout(p, MultiRun)
        \/ Continue(p)
        \/ FileStep(p)

Spec == Init /\ [][Next]_vars

\* The processes keep running: a process that is inside a flat-file operation
\* (waiting for the lock with its timeout, or holding it) is scheduled again.
SpecLive == Init /\ [][Next]_vars /\ \A p \in Procs : WF_vars(FileStep(p))

\* One store instance, constructed over empty storage, used by one process.
TheStore == "p1"
NextStore ==
    \/ get_next_id(TheStore, StoreRun)
    \/ \E i \in StoreIds, it \in Items : AddWithId(TheStore, i, it, StoreRun)
    \/ \E it \in Items : add_contact(TheStore, it, StoreIds, StoreRun)
    \/ \E i \in StoreIds : delete_item(TheStore, i, FALSE, StoreRun)
    \/ Continue(TheStore)
    \/ Acquire(TheStore)
    \/ ReadFile(TheStore)
    \/ _save_one_file(TheStore)
    \/ _delete_one_file(TheStore)
    \/ WriteFail(TheStore)
    \/ Release(TheStore)

SpecStore == Init /\ [][NextStore]_vars

\* One store instance over empty storage, with adds, partial updates and
\* deletes of caller-chosen ids.
NextCrud ==
    \/ \E i \in Ids, it \in Items : AddWithId(TheStore, i, it, CrudRun)
    \/ \E i \in Ids, u \in Updates : update_item(TheStore, i, u, FALSE, CrudRun)
    \/ \E i \in Ids : delete_item(TheStore, i, FALSE, CrudRun)
    \/ Continue(TheStore)
    \/ Acquire(TheStore)
    \/ ReadFile(TheStore)
    \/ _save_one_file(TheStore)
    \/ _delete_one_file(TheStore)
    \/ WriteFail(TheStore)
    \/ Release(TheStore)

SpecCrud == Init /\ [][NextCrud]_vars

\* One store instance that adds, updates and deletes, and a second process
\* that only constructs fresh instances against the same backend target.
Fresh == "p2"
NextRestart ==
    \/ \E i \in Ids, it \in Items : AddWithId(TheStore, i, it, CrudRun)
    \/ \E i \in Ids, u \in Updates : update_item(TheStore, i, u, FALSE, CrudRun)
    \/ \E i \in Ids : delete_item(TheStore, i, FALSE, CrudRun)
    \/ Construct(Fresh, CrudRun)
    \/ \E p \in {TheStore, Fresh} :
          \/ Continue(p)
          \/ Acquire(p)
          \/ LockTimeout(p)
          \/ ReadFile(p)
          \/ Release(p)
    \/ _load_state_file(Fresh)
    \/ _save_one_file(TheStore)
    \/ _delete_one_file(TheStore)
    \/ WriteFail(TheStore)

SpecRestart == Init /\ [][NextRestart]_vars

\* One store instance over empty storage: records are added under chosen ids
\* and the store is searched.
NextSearch ==
    \/ \E i \in Ids, it \in SearchItems : AddWithId(TheStore, i, it, SearchRun)
    \/ \E q \in Queries, fs \in SUBSET SearchFields : search_items(TheStore, q, fs, SearchRun)
    \/ Continue(TheStore)
    \/ Acquire(TheStore)
    \/ ReadFile(TheStore)
    \/ _save_one_file(TheStore)
    \/ Release(TheStore)

SpecSearch == Init /\ [][NextSearch]_vars

\* One store instance that adds and deletes, and a second process that loads
\* the same backend target into a fresh instance and then updates records.
NextStale ==
    \/ \E i \in Ids, it \in Items : AddWithId(TheStore, i, it, CrudRun)
    \/ \E i \in Ids : delete_item(TheStore, i, FALSE, CrudRun)
    \/ Construct(Fresh, CrudRun)
    \/ \E i \in Ids, u \in Updates : update_item(Fresh, i, u, FALSE, CrudRun)
    \/ \E p \in {TheStore, Fresh} :
          \/ Continue(p)
          \/ Acquire(p)
          \/ LockTimeout(p)
          \/ ReadFile(p)
          \/ _save_one_file(p)
          \/ Release(p)
    \/ _load_state_file(Fresh)
    \/ _delete_one_file(TheStore)

SpecStale == Init /\ [][NextStale]_vars

\* One store instance that adds and deletes, and a second process that loads
\* the same backend target and then only reads: get, list, search, nextId.
NextReads ==
    \/ \E i \in Ids, it \in Items : AddWithId(TheStore, i, it, CrudRun)
    \/ \E i \in Ids : delete_item(TheStore, i, FALSE, CrudRun)
    \/ Construct(Fresh, CrudRun)
    \/ \E i \in Ids : GetItem(Fresh, i, CrudRun)
    \/ ListItems(Fresh, CrudRun)
    \/ \E q \in Queries, fs \in SUBSET SearchFields : search_items(Fresh, q, fs, CrudRun)
    \/ get_next_id(Fresh, CrudRun)
    \/ \E p \in {TheStore, Fresh} :
          \/ Continue(p)
          \/ Acquire(p)
          \/ LockTimeout(p)
          \/ ReadFile(p)
          \/ Release(p)
    \/ _load_state_file(Fresh)
    \/ _save_one_file(TheStore)
    \/ _delete_one_file(TheStore)

SpecReads == Init /\ [][NextReads]_vars

\* A calendar store (file mode) that holds any valid events, asked for free
\* slots; the running call is scheduled until it returns.
NextCal ==
    \/ \E s \in CalTimes, d \in Durations : find_next_available(TheStore, s, d, CalRun)
    \/ ScanConflict(TheStore)
    \/ ScanFree(TheStore)
    \/ Continue(TheStore)

SpecCal ==
    /\ \E events \in [CalIds -> CalEvents \cup {NoEvent}] :
          /\ useDb = FALSE
          /\ file = Empty /\ fileKind = "absent" /\ table = Empty
          /\ lock = NoProc
          /\ state = [p \in Procs |-> IF p = TheStore THEN events ELSE Empty]
          /\ pc = [p \in Procs |-> "idle"]
          /\ op = [p \in Procs |-> NoOp]
          /\ data = [p \in Procs |-> Empty]
          /\ ret = [p \in Procs |-> "none"]
          /\ nid = [p \in Procs |-> 0]
          /\ faults = 0 /\ nops = 0
          /\ pre = [p \in Procs |-> Empty]
          /\ retry = [p \in Procs |-> FALSE]
          /\ gfile = Empty
          /\ assigned = {} /\ autoLast = 0 /\ delSince = FALSE
    /\ [][NextCal]_vars
    /\ WF_vars(ScanConflict(TheStore) \/ ScanFree(TheStore))

\* ------------------------------------------------------------- properties

\* What a reader of the state file gets right now.
OnDisk == ReadJson(fileKind, file)

\* Process p starts operation k in this step (a first call or a retry).
Called(p, k) ==
    /\ nops' = nops + 1
    /\ <<pc[p], op[p], ret[p], retry[p]>> # <<pc'[p], op'[p], ret'[p], retry'[p]>>
    /\ op'[p].kind = k

Writers == {"add", "update", "delete", "saveAll"}

\* C1: two instances on one file each save a different id (saveOne or saveAll,
\* each under the lock); whatever the interleaving, every id saved and not
\* deleted since is in the file, and a fresh instance that loads the file
\* holds each of them.
C1_BothSavesKept ==
    (~useDb /\ faults = 0) =>
        /\ Keys(gfile) \subseteq Keys(OnDisk)
        /\ \A p \in Procs :
              (pc[p] = "unlock" /\ op[p].kind = "load") => Keys(gfile) \subseteq Keys(state[p])

\* p2's add of j returned True, p1 (which had saved i and never saw j) has
\* constructed a fresh instance and loaded both.
C1_Witness ==
    /\ ~useDb /\ faults = 0
    /\ pc["p1"] = "unlock" /\ op["p1"].kind = "load"
    /\ pc["p2"] = "done" /\ op["p2"].kind = "add" /\ ret["p2"] = "True"
    /\ \E i \in Ids :
          /\ i # op["p2"].id
          /\ Has(pre["p1"], i) /\ ~Has(pre["p1"], op["p2"].id)
          /\ Has(OnDisk, i) /\ Has(OnDisk, op["p2"].id)
          /\ Has(state["p1"], i) /\ Has(state["p1"], op["p2"].id)

\* C2: single-record writes to different ids never clobber each other: the
\* file always holds, for every id, the record of the last successful write
\* to that id (or nothing after its delete), whatever other ids were written
\* by other processes in between.
C2_NoClobber ==
    (~useDb /\ faults = 0) => OnDisk = gfile

\* p1 added i, p2 deleted a different id j that was in the file; both returned.
C2_Witness ==
    /\ ~useDb /\ faults = 0
    /\ pc["p1"] = "done" /\ op["p1"].kind = "add" /\ ret["p1"] = "True"
    /\ pc["p2"] = "done" /\ op["p2"].kind = "delete" /\ ret["p2"] = "True"
    /\ op["p1"].id # op["p2"].id
    /\ OnDisk[op["p1"].id] = op["p1"].item
    /\ ~Has(OnDisk, op["p2"].id)

C4_AllOrNothing ==
    \A p \in Procs :
        (~useDb /\ pc[p] = "done" /\ ret[p] \in {"Timeout", "IOError"}
                /\ op[p].kind \in {"add", "update", "delete"})
            => state[p] = pre[p]

\* C5: the operation re-invoked after a lock timeout, once the lock is free,
\* succeeds (unless the retry itself meets an I/O error).
C5_RetrySucceeds ==
    \A p \in Procs :
        (~useDb /\ retry[p] /\ pc[p] = "done" /\ lock = NoProc)
            => ret[p] \in {"True", "Timeout", "IOError"}

C7_NextId ==
    [][ Called(TheStore, "nextId") =>
          LET K == Keys(state[TheStore])
              n == nid'[TheStore]
          IN  /\ K = {} => n = 1
              /\ K # {} => (n - 1 \in K /\ \A k \in K : k <= n - 1)
              /\ K = {2, 3, 5} => n = 6
              /\ pc'[TheStore] = "done"
              /\ UNCHANGED <<state, file, fileKind, table, lock>> ]_vars

C7_Witness ==
    /\ pc[TheStore] = "done" /\ op[TheStore].kind = "nextId"
    /\ Keys(state[TheStore]) = {2, 3, 5}
    /\ nid[TheStore] = 6

\* A record stored under an id is never replaced by another add.
NoOverwrite ==
    \A i \in AllIds :
        (Has(state[TheStore], i) /\ Has(state'[TheStore], i))
            => state'[TheStore][i] = state[TheStore][i]

C9_AddDuplicate ==
    [][ \A p \in Procs :
          (Called(p, "add") /\ Has(state[p], op'[p].id)) =>
              /\ pc'[p] = "done" /\ ret'[p] = "False"
              /\ UNCHANGED <<state, file, fileKind, table, lock>> ]_vars

C9_Witness ==
    \E p \in Procs :
        /\ pc[p] = "done" /\ op[p].kind = "add" /\ ret[p] = "False"
        /\ Has(state[p], op[p].id)
        /\ _validate_item(op[p].item)
        /\ state[p][op[p].id] # op[p].item

\* C10: update of an id the store does not hold returns False and writes
\* nothing: the backend has no new and no changed entry.
C10_UpdateMissing ==
    [][ \A p \in Procs :
          (Called(p, "update") /\ ~Has(state[p], op'[p].id)) =>
              /\ pc'[p] = "done" /\ ret'[p] = "False"
              /\ UNCHANGED <<state, file, fileKind, table, lock>> ]_vars

C10_Witness ==
    \E p \in Procs :
        /\ pc[p] = "done" /\ op[p].kind = "update" /\ ret[p] = "False"
        /\ ~Has(state[p], op[p].id)
        /\ _validate_item(op[p].item)

\* An id comes into the store's state only by an add called with that id.
OnlyAddBrings ==
    \A i \in AllIds :
        (~Has(state[TheStore], i) /\ Has(state'[TheStore], i))
            => (Called(TheStore, "add") /\ op'[TheStore].id = i)

\* C11: when delete returns True, get_item of the id is None and list_items
\* does not hold it; the id stays out until an add is called with it (over
\* operations that all went through); and a delete of an id that is out
\* returns False and changes nothing.
C11_DeleteThenAbsent ==
    [][ /\ (pc[TheStore] # "done" /\ pc'[TheStore] = "done"
                /\ op'[TheStore].kind = "delete" /\ ret'[TheStore] = "True")
            => /\ get_item(useDb, state'[TheStore], op'[TheStore].id) = NoRec
               /\ op'[TheStore].id \notin DOMAIN list_items(useDb, state'[TheStore])
        /\ faults' = 0 => OnlyAddBrings
        /\ (Called(TheStore, "delete") /\ ~Has(state[TheStore], op'[TheStore].id))
            => /\ pc'[TheStore] = "done" /\ ret'[TheStore] = "False"
               /\ UNCHANGED <<state, file, fileKind, table, lock>> ]_vars

\* A second delete of an id that was added and deleted before returned False,
\* with other records still in the store.
C11_Witness ==
    /\ faults = 0
    /\ pc[TheStore] = "done" /\ op[TheStore].kind = "delete" /\ ret[TheStore] = "False"
    /\ op[TheStore].id \in assigned
    /\ Keys(state[TheStore]) # {}

\* C12: an add of a new id whose record the validation hook rejects raises the
\* validation error, writes nothing to either backend and leaves the in-memory
\* state, and so the next id, as they were.
C12_AddRejected ==
    [][ \A p \in Procs :
          (Called(p, "add") /\ ~Has(state[p], op'[p].id) /\ ~_validate_item(op'[p].item)) =>
              /\ pc'[p] = "done" /\ ret'[p] = "ValueError"
              /\ UNCHANGED <<state, file, fileKind, table, lock>>
              /\ _get_next_id(state'[p]) = _get_next_id(state[p]) ]_vars

\* A rejected add on a store that holds records, with an id above them all.
C12_Witness ==
    \E p \in Procs :
        /\ pc[p] = "done" /\ op[p].kind = "add" /\ ret[p] = "ValueError"
        /\ ~_validate_item(op[p].item)
        /\ Keys(state[p]) # {}
        /\ op[p].id = _get_next_id(state[p])

\* C13: update validates the stored record overlaid with the supplied fields.
\* When the hook rejects that merged record the call fails and the cache and
\* the durable copy are unchanged; when it accepts it, the update is not
\* refused for validation, whatever the supplied fields are on their own.
C13_UpdateValidatesMerged ==
    [][ \A p \in Procs :
          (Called(p, "update") /\ Has(state[p], op'[p].id)
                /\ (useDb => Has(table, op'[p].id))) =>
              LET item_id == op'[p].id
                  stored == IF useDb THEN table[item_id] ELSE state[p][item_id]
                  merged == Merge(stored, op'[p].item)
              IN  IF ~_validate_item(merged)
                  THEN /\ pc'[p] = "done"
                       /\ ret'[p] = (IF useDb THEN "False" ELSE "ValueError")
                       /\ UNCHANGED <<state, file, fileKind, table, lock>>
                  ELSE /\ ret'[p] # "ValueError"
                       /\ ret'[p] = "False" => faults' = faults + 1
                       /\ ret'[p] # "False" => state'[p][item_id] = merged ]_vars

\* An update that would empty the required field of a stored record was
\* refused, and the record is as it was.
C13_Witness ==
    \E p \in Procs :
        /\ pc[p] = "done" /\ op[p].kind = "update"
        /\ ret[p] \in {"ValueError", "False"}
        /\ Has(state[p], op[p].id) /\ Has(IF useDb THEN table ELSE OnDisk, op[p].id)
        /\ op[p].item["first_name"] = "" /\ op[p].item["title"] = "x"
        /\ state[p][op[p].id] = pre[p][op[p].id]
        /\ state[p][op[p].id]["title"] = ""

\* Every record of s is one the validation hook accepts.
AllValid(s) == \A i \in Keys(s) : _validate_item(s[i])

\* C14: from empty storage, whatever the processes add, update and delete,
\* every record in any process's in-memory state, in the file and in the
\* table is a record the validation hook accepts.
C14_OnlyValidRecords ==
    /\ \A p \in Procs : AllValid(state[p])
    /\ AllValid(OnDisk)
    /\ AllValid(table)

\* A record that was added and then changed by an update is in the durable
\* copy and in the cache.
C14_Witness ==
    \E p \in Procs :
        /\ pc[p] = "done" /\ op[p].kind = "update" /\ ret[p] = "True"
        /\ state[p][op[p].id] # pre[p][op[p].id]
        /\ (IF useDb THEN table ELSE OnDisk)[op[p].id] = state[p][op[p].id]

FreshLoads ==
    IF useDb THEN Called(Fresh, "load")
             ELSE pc[Fresh] = "write" /\ pc'[Fresh] = "unlock"

C18_TimeoutPropagates ==
    [][ \A p \in Procs :
          (pc[p] = "acquire" /\ op[p].kind \in Writers /\ lock \notin {NoProc, p}
                /\ pc'[p] # "acquire") =>
              /\ pc'[p] = "done" /\ ret'[p] = "Timeout"
              /\ UNCHANGED <<file, fileKind, table, lock, nops>> ]_vars

\* A saveAll timed out while the other process, in the middle of its own
\* write, holds the lock.
C18_Witness ==
    \E p \in Procs :
        /\ pc[p] = "done" /\ ret[p] = "Timeout" /\ op[p].kind = "saveAll"
        /\ lock \notin {NoProc, p}
        /\ \E q \in Procs \ {p} : pc[q] = "write"

\* C19: a load that gives up on a busy lock raises the Timeout to the caller,
\* so that no store instance starts with an empty state while the file holds
\* records because the lock was busy.
C19_LoadTimeoutPropagates ==
    [][ \A p \in Procs :
          (pc[p] = "acquire" /\ op[p].kind = "load" /\ lock \notin {NoProc, p}
                /\ pc'[p] # "acquire") =>
              \/ ret'[p] = "Timeout"
              \/ ~(pc'[p] = "done" /\ state'[p] = Empty /\ Keys(OnDisk) # {}) ]_vars

\* C20: a load that finds no file, or a file that does not parse, gives the
\* empty state and returns normally; no step of a load changes the file.
C20_LoadMissingOrBad ==
    [][ \A p \in Procs :
          (op'[p].kind = "load" /\ <<pc[p], op[p]>> # <<pc'[p], op'[p]>>) =>
              /\ UNCHANGED <<file, fileKind>>
              /\ (pc'[p] = "unlock" /\ fileKind # "json") => state'[p] = Empty
              /\ (pc[p] = "unlock" /\ pc'[p] = "done" /\ fileKind # "json")
                    => ret'[p] = "None" ]_vars

\* A process whose earlier instance held a record has built a new instance
\* over a file that a failed write left unparsable.
C20_Witness ==
    \E p \in Procs :
        /\ pc[p] = "unlock" /\ op[p].kind = "load"
        /\ fileKind = "garbage"
        /\ pre[p] # Empty /\ state[p] = Empty

\* The positions of a flat-file operation that lie inside its `with lock:` block.
InCritical(p) == pc[p] \in {"read", "write", "unlock"}

\* C21: at most one process at a time is inside a critical section of the
\* state file (the read of a load; the re-read, change and write-back of
\* saveAll, saveOne, deleteOne), and it holds the lock throughout; between the
\* re-read and the write-back of one operation nobody else wrote the file:
\* what the operation re-read is still what the file holds.
C21_MutualExclusion ==
    /\ \A p, q \in Procs : (InCritical(p) /\ InCritical(q)) => p = q
    /\ \A p \in Procs :
          InCritical(p) => /\ lock = p
                           /\ (pc[p] = "write" => data[p] = OnDisk)

\* p has re-read a non-empty file and is about to write it back while the
\* other process, which wants to write as well, waits for the lock.
C21_Witness ==
    \E p, q \in Procs :
        /\ p # q /\ ~useDb
        /\ pc[p] = "write" /\ op[p].kind \in Writers /\ Keys(data[p]) # {}
        /\ pc[q] = "acquire" /\ op[q].kind \in Writers

\* C22: the lock is released on every exit path: a process that is not inside
\* a critical section (its load, saveAll, saveOne or deleteOne returned, or
\* failed on an absent or unparsable file or on a write I/O error) does not
\* hold the lock, and the step on which a write I/O error reaches the caller
\* is a step that leaves the lock free.
C22_ReleasedOnEveryExit ==
    [][ \A p \in Procs :
          /\ (~InCritical(p))' => lock' # p
          /\ (pc[p] = "write" /\ pc'[p] = "done" /\ ret'[p] = "IOError") =>
                 (lock = p /\ lock' = NoProc) ]_vars

\* p's write failed with an I/O error, p no longer holds the lock, and the
\* other process has already taken it for its own operation.
C22_Witness ==
    \E p, q \in Procs :
        /\ p # q /\ ~useDb
        /\ pc[p] = "done" /\ ret[p] = "IOError"
        /\ pc[q] = "read" /\ lock = q

\* C23: the file after saveAll is the content re-read under the lock overlaid
\* with the caller's in-memory snapshot: for an id the snapshot holds the
\* snapshot's record is written, whatever the disk held, an id only the disk
\* holds is kept; and the caller's state afterwards is that merged result.
C23_SaveAllMerge ==
    [][ \A p \in Procs :
          (pc[p] = "write" /\ op[p].kind = "saveAll" /\ pc'[p] = "unlock") =>
              /\ data[p] = OnDisk
              /\ fileKind' = "json"
              /\ \A i \in AllIds :
                    file'[i] = IF Has(state[p], i) THEN state[p][i] ELSE data[p][i]
              /\ state'[p] = file' ]_vars

\* A saveAll has just written: for one id the disk held another process's
\* record and the snapshot's record replaced it.
C23_Witness ==
    \E p \in Procs, i \in Ids :
        /\ pc[p] = "unlock" /\ op[p].kind = "saveAll"
        /\ Has(pre[p], i) /\ Has(data[p], i) /\ data[p][i] # pre[p][i]
        /\ file[i] = pre[p][i] /\ state[p] = file

\* The record a saveOne of p writes: the new record of an add, the merged
\* record of an update.
Written(p) ==
    IF op[p].kind = "add" THEN op[p].item ELSE Merge(pre[p][op[p].id], op[p].item)

\* C24: writes under one id are last-writer-wins. The process that holds the
\* lock after its write-back (the last to acquire it) finds its own record
\* under the id in the file, whatever another process had stored there, every
\* other id is as it re-read it, and the write returns success, never a
\* conflict error.
C24_LastWriterWins ==
    [][ \A p \in Procs :
          (pc[p] = "unlock" /\ op[p].kind \in {"add", "update"} /\ pc'[p] = "done") =>
              /\ ret'[p] = "True"
              /\ fileKind = "json"
              /\ file[op[p].id] = Written(p)
              /\ \A j \in AllIds \ {op[p].id} : file[j] = data[p][j]
              /\ UNCHANGED <<file, fileKind>> ]_vars

\* p added a record under an id and succeeded; q then added a different
\* record under the same id and succeeded as well: the file holds q's record,
\* and the record under another id is still there.
C24_Witness ==
    \E p, q \in Procs :
        /\ p # q /\ ~useDb
        /\ pc[p] = "done" /\ op[p].kind = "add" /\ ret[p] = "True"
        /\ pc[q] = "done" /\ op[q].kind = "add" /\ ret[q] = "True"
        /\ op[q].id = op[p].id /\ op[q].item # op[p].item
        /\ Has(data[q], op[q].id) /\ data[q][op[q].id] = op[p].item
        /\ file[op[q].id] = op[q].item
        /\ \E j \in Ids \ {op[q].id} : Has(file, j)

\* Process p calls search in this step (the call returns in the same step).
Searched(p) == pc[p] = "idle" /\ pc'[p] = "done" /\ op'[p].kind = "search"

\* The value of a field contains a case-insensitive match of the query.
ContainsMatch(v, query) == v # NoVal /\ RegexSearch(Text(query), Text(v))

\* C25: search(query, fields) returns exactly the records for which at least
\* one of the named fields contains a case-insensitive match of the query:
\* each such record once, with its identifier and its own field values, and
\* no other record; the store is not modified.
C25_SearchExact ==
    [][ \A p \in Procs :
          (Searched(p) /\ ret'[p].error = "none") =>
              LET rows == ret'[p].rows
                  query == op'[p].item.query
                  fields == op'[p].item.fields
              IN  /\ \A i \in AllIds :
                        Cardinality({k \in 1..Len(rows) : rows[k].item_id = i}) =
                            IF /\ Has(state[p], i)
                               /\ \E f \in fields \cap Fields :
                                     ContainsMatch(state[p][i][f], query)
                            THEN 1 ELSE 0
                  /\ \A k \in 1..Len(rows), f \in Fields :
                        rows[k][f] = state[p][rows[k].item_id][f]
                  /\ UNCHANGED <<state, file, fileKind, table>> ]_vars

\* C26: search with the empty query over one named field returns every record
\* of the store, one entry per stored record, whatever the records hold in
\* that field.
C26_EmptyQueryAll ==
    [][ \A p \in Procs :
          (/\ Searched(p)
           /\ op'[p].item.query = ""
           /\ \E f \in Fields : op'[p].item.fields = {f}) =>
              LET rows == ret'[p].rows
              IN  /\ ret'[p].error = "none"
                  /\ Len(rows) = Cardinality(Keys(state[p]))
                  /\ \A i \in Keys(state[p]) :
                        \E k \in 1..Len(rows) : rows[k].item_id = i ]_vars

\* C27: search with a query that does not compile as a pattern ("[", an
\* unterminated character set) fails with the invalid-pattern error
\* (ValueError "Invalid regex pattern"), hands out no rows, and leaves the
\* cache and the storage as they were.
C27_InvalidPattern ==
    [][ \A p \in Procs :
          (Searched(p) /\ op'[p].item.query = "[") =>
              /\ ret'[p].error = "ValueError"
              /\ ret'[p].rows = << >>
              /\ UNCHANGED <<state, file, fileKind, table>> ]_vars

\* The store holds a record whose first_name a valid query would match, and
\* the search of first_name with "[" has failed.
C27_Witness ==
    \E p \in Procs :
        /\ pc[p] = "done" /\ op[p].kind = "search"
        /\ op[p].item.query = "[" /\ "first_name" \in op[p].item.fields
        /\ ret[p].error = "ValueError"
        /\ \E i \in Ids : Has(state[p], i) /\ Truthy(state[p][i]["first_name"])

CrudKinds == {"add", "update", "delete"}

\* C28: in relational mode a failing insert, update or delete (the row
\* operation or its commit raises, or the insert hits an existing row) makes
\* the call report failure, and a call that reports failure has not touched
\* the in-memory state: the cache after it equals the cache before it, and
\* nothing of the transaction is committed to the table.
C28_DbFailureKeepsCache ==
    [][ \A p \in Procs :
          (useDb /\ \E k \in CrudKinds : Called(p, k)) =>
              /\ (faults' # faults) => ret'[p] = "False"
              /\ (/\ op'[p].kind = "add" /\ ~Has(state[p], op'[p].id)
                  /\ _validate_item(op'[p].item) /\ Has(table, op'[p].id)) =>
                     ret'[p] = "False"
              /\ (ret'[p] = "False") =>
                     (state'[p] = state[p] /\ table' = table) ]_vars

\* A delete of a record that is cached and in the table failed in the
\* transaction: it returned failure, the record is still cached and stored.
C28_Witness ==
    \E p \in Procs :
        /\ useDb /\ faults > 0
        /\ pc[p] = "done" /\ op[p].kind = "delete" /\ ret[p] = "False"
        /\ Has(pre[p], op[p].id) /\ Has(table, op[p].id)
        /\ state[p] = pre[p]

\* The validation hook rejects the record an add or update of p is about to
\* store (the id is free for the add, held for the update).
Rejected(p, o) ==
    \/ /\ o.kind = "add"
       /\ ~Has(state[p], o.id)
       /\ ~_validate_item(o.item)
    \/ /\ o.kind = "update"
       /\ Has(state[p], o.id)
       /\ IF useDb
          THEN Has(table, o.id) /\ ~_validate_item(Merge(table[o.id], o.item))
          ELSE ~_validate_item(Merge(state[p][o.id], o.item))

\* C29: under both backends an add or update whose record the validation hook
\* rejects ends with the validation failure (ValueError) at its caller, never
\* with a plain False, which is what not-found, already-exists and storage
\* failures give.
C29_ValidationTyped ==
    [][ \A p \in Procs :
          ((Called(p, "add") \/ Called(p, "update")) /\ Rejected(p, op'[p])) =>
              ret'[p] = "ValueError" ]_vars

\* What the flat-file store answers to call o on the state st when nothing
\* fails in the storage, and the state it holds afterwards.
FileOutcome(st, o) ==
    CASE o.kind = "add" ->
            IF Has(st, o.id) THEN "False"
            ELSE IF ~_validate_item(o.item) THEN "ValueError" ELSE "True"
      [] o.kind = "update" ->
            IF ~Has(st, o.id) THEN "False"
            ELSE IF ~_validate_item(Merge(st[o.id], o.item)) THEN "ValueError" ELSE "True"
      [] o.kind = "delete" ->
            IF Has(st, o.id) THEN "True" ELSE "False"
FileState(st, o) ==
    IF FileOutcome(st, o) # "True" THEN st
    ELSE CASE o.kind = "add" -> [st EXCEPT ![o.id] = o.item]
           [] o.kind = "update" -> [st EXCEPT ![o.id] = Merge(st[o.id], o.item)]
           [] o.kind = "delete" -> [st EXCEPT ![o.id] = NoRec]

\* C30: for one sequence of calls by a single process on empty storage both
\* backends answer alike: whichever backend is active, a finished add, update
\* or delete has the outcome the flat-file store gives for that call on the
\* same state, and the store then exposes (list, get, nextId) the ids and the
\* field values the flat-file store would.
C30_BackendsAgree ==
    (/\ faults = 0
     /\ pc[TheStore] = "done"
     /\ op[TheStore].kind \in CrudKinds) =>
        LET expected == FileState(pre[TheStore], op[TheStore])
            listed == list_items(useDb, state[TheStore])
        IN  /\ ret[TheStore] = FileOutcome(pre[TheStore], op[TheStore])
            /\ DOMAIN listed = Keys(expected)
            /\ \A i \in DOMAIN listed, f \in Fields : listed[i][f] = expected[i][f]
            /\ \A i \in AllIds, f \in Fields :
                  get_item(useDb, state[TheStore], i)[f] = expected[i][f]
            /\ _get_next_id(state[TheStore]) = _get_next_id(expected)

\* C31: in relational mode with several processes on one table, when an add,
\* update or delete returns success in a process, that process's in-memory
\* state equals the committed contents of the table.
C31_DbCacheIsTable ==
    [][ \A p \in Procs :
          (/\ useDb
           /\ \E k \in CrudKinds : Called(p, k)
           /\ ret'[p] = "True") => state'[p] = table' ]_vars

\* The id an add of p carries is the one _get_next_id gave p for its state.
FromNextId(p) == op[p].kind = "add" /\ op[p].id = _get_next_id(pre[p])

\* C32: two processes on one flat file each add one record under the id they
\* got from nextId; once both adds have returned success, both records are
\* in the file, under distinct ids.
C32_NoLostAdd ==
    (/\ ~useDb /\ faults = 0
     /\ \A p \in Procs : pc[p] = "done" /\ FromNextId(p) /\ ret[p] = "True") =>
        /\ op["p1"].id # op["p2"].id
        /\ \A p \in Procs : Has(OnDisk, op[p].id) /\ OnDisk[op[p].id] = op[p].item

\* C33: update never creates a durable entry. When another process has
\* deleted the id from the shared file after this process loaded its state,
\* the update writes nothing: an update's write-back happens only for an id
\* the re-read file still holds, and it adds no id to the file.
C33_UpdateNeverCreates ==
    [][ \A p \in Procs :
          (/\ ~useDb
           /\ pc[p] = "write" /\ op[p].kind = "update" /\ pc'[p] = "unlock") =>
              /\ Has(data[p], op[p].id)
              /\ Keys(ReadJson(fileKind', file')) \subseteq Keys(OnDisk) ]_vars

\* C34: saveOne(id, r) and deleteOne(id) change only the file's entry for id:
\* for every other identifier the entry after the write is the entry re-read
\* under the same lock acquisition, entries written by other processes that
\* the caller's state did not hold included.
C34_WriteFrame ==
    [][ \A p \in Procs :
          (/\ pc[p] = "write" /\ op[p].kind \in CrudKinds /\ pc'[p] = "unlock") =>
              /\ lock = p /\ lock' = p
              /\ data[p] = OnDisk
              /\ \A k \in AllIds \ {op[p].id} :
                    ReadJson(fileKind', file')[k] = data[p][k] ]_vars

\* p has just written (or deleted) one id; the file holds under another id a
\* record of the other process that p's state did not hold when p was called.
C34_Witness ==
    \E p \in Procs, k \in Ids :
        /\ ~useDb
        /\ pc[p] = "unlock" /\ op[p].kind \in CrudKinds
        /\ k # op[p].id
        /\ ~Has(pre[p], k) /\ Has(data[p], k)
        /\ fileKind = "json" /\ file[k] = data[p][k]

\* The positions of a flat-file operation between its call and its return.
InFile(p) == pc[p] \in {"acquire", "read", "write", "unlock"}

\* C35: every flat-file operation terminates and the system never deadlocks:
\* a process inside a flat-file operation can always take a step (acquire the
\* free lock, give up on the held one, or go on under the lock it holds), it
\* eventually returns, and a lock that is held is eventually released, under
\* every interleaving.
C35_Terminates ==
    /\ [](\A p \in Procs : InFile(p) => ENABLED <<FileStep(p)>>_vars)
    /\ \A p \in Procs : InFile(p) ~> (pc[p] = "done")
    /\ \A p \in Procs : (lock = p) ~> (lock = NoProc)

\* One process gave up with the lock timeout while the other held the lock;
\* the other has finished its write and released the lock.
C35_Witness ==
    \E p, q \in Procs :
        /\ p # q /\ ~useDb
        /\ pc[p] = "done" /\ ret[p] = "Timeout"
        /\ pc[q] = "done" /\ op[q].kind \in Writers /\ ret[q] \in {"True", "None"}
        /\ lock = NoProc

ReadKinds == {"get", "list", "search", "nextId"}

\* C36: get, list, search and nextId read only the in-memory state. A call
\* returns in the step it is made, whoever holds the file lock; it does not
\* take the lock, does not read the file or the table (nothing is re-read)
\* and does not write them, and the in-memory state is as before.
C36_ReadsOnlyMemory ==
    [][ \A p \in Procs :
          (pc[p] = "idle" /\ pc'[p] # "idle" /\ op'[p].kind \in ReadKinds) =>
              /\ pc'[p] = "done"
              /\ UNCHANGED <<lock, file, fileKind, table, state, data>> ]_vars

\* The reader has loaded a record and its search has returned it while the
\* writing process is inside its critical section, holding the lock.
C36_Witness ==
    \E p, q \in Procs :
        /\ p # q /\ ~useDb
        /\ lock = q /\ InCritical(q)
        /\ pc[p] = "done" /\ op[p].kind = "search"
        /\ ret[p].error = "none" /\ Len(ret[p].rows) > 0

\* The row a successful call o leaves under its id.
Committed(o) ==
    CASE o.kind = "add" -> o.item
      [] o.kind = "update" -> Merge(table[o.id], o.item)
      [] o.kind = "delete" -> NoRec

\* The call is rejected on the in-memory state, before the backend is reached.
RejectedEarly(p, o) ==
    IF o.kind = "add" THEN Has(state[p], o.id) ELSE ~Has(state[p], o.id)

\* C37: in relational mode the table changes only in the one transaction of a
\* successful add, update or delete, and that transaction touches exactly the
\* row of the given id (inserted, rewritten with the merged values, or
\* removed); an add of an id the state holds and an update or delete of an id
\* it does not hold return failure and commit nothing.
C37_OneRowPerCommit ==
    [][ useDb =>
          /\ \A p \in Procs :
                (\E k \in CrudKinds : Called(p, k)) =>
                    /\ \A j \in AllIds \ {op'[p].id} : table'[j] = table[j]
                    /\ (ret'[p] = "True") =>
                          /\ table'[op'[p].id] = Committed(op'[p])
                          /\ Has(table, op'[p].id) <=> (op'[p].kind # "add")
                    /\ (ret'[p] # "True") => table' = table
                    /\ RejectedEarly(p, op'[p]) => ret'[p] = "False"
          /\ (table' # table) =>
                \E p \in Procs, k \in CrudKinds : Called(p, k) /\ ret'[p] = "True"
          /\ UNCHANGED <<file, fileKind>> ]_vars

\* An update changed the row of its id while the table also holds a row of
\* the other process that the updating process never cached.
C37_Witness ==
    \E p \in Procs, j \in Ids :
        /\ useDb
        /\ pc[p] = "done" /\ op[p].kind = "update" /\ ret[p] = "True"
        /\ table[op[p].id] = Merge(pre[p][op[p].id], op[p].item)
        /\ table[op[p].id] # pre[p][op[p].id]
        /\ j # op[p].id /\ Has(table, j) /\ ~Has(state[p], j)

\* The interval [t, t + d) shares a minute with the interval of a stored event.
Busy(events, t, d) ==
    \E i \in DOMAIN events :
        /\ events[i] # NoEvent
        /\ \E m \in t..(t + d - 1) :
              /\ strptime(events[i].date) <= m
              /\ m < strptime(events[i].date) + events[i].duration

\* C38: find_next_available(start, d) terminates for every set of stored
\* events, and the time it returns is the earliest t >= start at which
\* [t, t + d) overlaps no stored event: t is free and every time from start
\* up to t is busy (so with no conflict at start it returns start itself).
C38_NextAvailable ==
    /\ [](\A p \in Procs :
            (pc[p] = "done" /\ op[p].kind = "findNext") =>
                \E t \in strptime(op[p].item.start)..(strptime(op[p].item.start)
                                                          + MaxEvents * MaxDur + 2) :
                    LET start == strptime(op[p].item.start)
                        d == op[p].item.duration
                    IN  /\ ret[p] = ToString(strftime(t))
                        /\ strptime(strftime(t)) = t
                        /\ ~Busy(state[p], t, d)
                        /\ \A u \in start..(t - 1) : Busy(state[p], u, d))
    /\ \A p \in Procs : (pc[p] = "scan") ~> (pc[p] = "done")

\* The call returned a time on the next day after passing two events: the
\* start lay in the first event and the time right after the first event lay
\* in the reach of the second.
C38_Witness ==
    /\ pc[TheStore] = "done" /\ op[TheStore].kind = "findNext"
    /\ op[TheStore].item.start[1] = 0
    /\ \E i, j \in CalIds :
          LET si == strptime(state[TheStore][i].date)
              ei == si + state[TheStore][i].duration
              sj == strptime(state[TheStore][j].date)
              ej == sj + state[TheStore][j].duration
          IN  /\ i # j /\ state[TheStore][i] # NoEvent /\ state[TheStore][j] # NoEvent
              /\ si <= strptime(op[TheStore].item.start)
              /\ strptime(op[TheStore].item.start) < ei
              /\ ei <= sj
              /\ ret[TheStore] = ToString(strftime(ej))
              /\ strftime(ej)[1] = 1

====
